---- MODULE Spec2Model ----
(***************************************************************************)
(* dmgbuild settings for GitBar (dmg-settings.py).                         *)
(*                                                                         *)
(* The settings file is a Python module whose body is executed by the      *)
(* disk-image builder every time an image is built.  The body reads two    *)
(* variables of the process environment and binds the module's names.      *)
(* The state machine has the process environment, the names bound by the   *)
(* last execution of the module body, and the environment that execution   *)
(* saw.  Python strings are sequences of one-character strings, so that    *)
(* os.path.join and the final path component are computed, not assumed.    *)
(***************************************************************************)
EXTENDS Integers, Sequences, FiniteSets, TLC

VARIABLES environ, status, settings, loadEnv

vars == <<environ, status, settings, loadEnv>>

(***************************************************************************)
(* Bounds of the model.                                                    *)
(***************************************************************************)
\* Longest arbitrary string over Alphabet given to an environment variable.
MaxLen == 2

Alphabet == {"/", "a"}

Strings(n) == UNION {[1..k -> Alphabet] : k \in 0..n}

(***************************************************************************)
(* String literals of the source.                                          *)
(***************************************************************************)
APP_PATH == "APP_PATH"

DMG_RESOURCES == "DMG_RESOURCES"

DefaultAppPath ==
  <<"b","u","i","l","d","/","R","e","l","e","a","s","e","/",
    "G","i","t","B","a","r",".","a","p","p">>

DefaultDmgResources ==
  <<"d","m","g","-","r","e","s","o","u","r","c","e","s">>

AppIconIcns == <<"A","p","p","I","c","o","n",".","i","c","n","s">>

BackgroundPng == <<"b","a","c","k","g","r","o","u","n","d",".","p","n","g">>

GitBarApp == <<"G","i","t","B","a","r",".","a","p","p">>

Applications == <<"A","p","p","l","i","c","a","t","i","o","n","s">>

SlashApplications == <<"/">> \o Applications

\* Python's None: a one-element value that is no string over any character.
None == <<"None">>

IsStr(v) == v # None

(***************************************************************************)
(* Values the two environment variables are given in the model: every      *)
(* string over Alphabet up to MaxLen (the empty string, "/", relative and  *)
(* absolute paths, trailing slashes) and a few realistic paths.            *)
(***************************************************************************)
OtherApp == <<"o","u","t","/","O","t","h","e","r",".","a","p","p">>

AbsGitBarApp == <<"/","t","m","p","/">> \o GitBarApp

GitBarAppSlash == GitBarApp \o <<"/">>

ResDir == <<"r","e","s","/">>

AppPathValues ==
  Strings(MaxLen) \cup {DefaultAppPath, OtherApp, AbsGitBarApp, GitBarAppSlash}

DmgResourcesValues == Strings(MaxLen) \cup {DefaultDmgResources, ResDir}

ValuesOf(key) == IF key = APP_PATH THEN AppPathValues ELSE DmgResourcesValues

Keys == {APP_PATH, DMG_RESOURCES}

(***************************************************************************)
(* Library functions the module body calls.                                *)
(***************************************************************************)
\* Variant: "os.environ.get(key) or default", which also replaces an empty
\* value by the default.
environ_get_or_default(env, key, default) ==
  IF key \in DOMAIN env /\ env[key] # <<>> THEN env[key] ELSE default

\* Variant: os.environ.get(key), which is None for an absent key.
environ_get_no_default(env, key, default) ==
  IF key \in DOMAIN env THEN env[key] ELSE None

\* os.environ.get(key, default): the value when the key is present (the
\* empty string included), the default only when it is absent.
environ_get(env, key, default) ==
  IF key \in DOMAIN env THEN env[key] ELSE default

\* os.path.join(a, b) of posixpath: b alone when b is absolute, a and b
\* with one "/" between them unless a is empty or already ends in "/".
join(a, b) ==
  IF Len(b) > 0 /\ b[1] = "/" THEN b
  ELSE IF Len(a) = 0 \/ a[Len(a)] = "/" THEN a \o b
  ELSE a \o <<"/">> \o b

(***************************************************************************)
(* The names bound by the module body, as functions of the environment.    *)
(***************************************************************************)
app_path(env) == environ_get(env, APP_PATH, DefaultAppPath)

dmg_resources(env) == environ_get(env, DMG_RESOURCES, DefaultDmgResources)

volume_name == <<"G","i","t","B","a","r">>

format == <<"U","D","B","Z">>

size == None

\* Variant: the resources directory copied into the image as well.
files_with_resources(env) == <<app_path(env), dmg_resources(env)>>

files(env) == <<app_path(env)>>

symlinks == [k \in {Applications} |-> SlashApplications]

\* Variant: the volume icon looked up inside the application bundle.
icon_in_bundle(env) == join(app_path(env), AppIconIcns)

icon(env) == join(dmg_resources(env), AppIconIcns)

\* Variant: the background looked up in the default directory only.
background_default_dir(env) == join(DefaultDmgResources, BackgroundPng)

background(env) == join(dmg_resources(env), BackgroundPng)

window_rect == <<<<200, 120>>, <<660, 400>>>>

icon_size == 100

\* Variant: the positions of a 640x280 layout.
icon_locations_dmgbuild_example ==
  [k \in {GitBarApp, Applications} |->
     IF k = GitBarApp THEN <<140, 120>> ELSE <<500, 120>>]

icon_locations ==
  [k \in {GitBarApp, Applications} |->
     IF k = GitBarApp THEN <<180, 200>> ELSE <<480, 200>>]

hide_extension == <<GitBarApp>>

text_size == 12

\* Variant: a body that rejects empty paths.
LoadRaisesOnEmptyPath(env) ==
  \/ ~IsStr(dmg_resources(env))
  \/ app_path(env) = <<>>
  \/ dmg_resources(env) = <<>>

\* The execution of the module body raises: os.path.join raises TypeError
\* when its first argument is not a string.  Nothing else in the body can
\* raise, and nothing in it looks at the file system.
LoadRaises(env) == ~IsStr(dmg_resources(env))

\* The module's namespace after its body ran to the end.
Module(env) ==
  [ app_path       |-> app_path(env),
    dmg_resources  |-> dmg_resources(env),
    volume_name    |-> volume_name,
    format         |-> format,
    size           |-> size,
    files          |-> files(env),
    symlinks       |-> symlinks,
    icon           |-> icon(env),
    background     |-> background(env),
    window_rect    |-> window_rect,
    icon_size      |-> icon_size,
    icon_locations |-> icon_locations,
    hide_extension |-> hide_extension,
    text_size      |-> text_size ]

\* No settings: the module body has not run, or it raised.
NoSettings == [ unbound |-> TRUE ]

EmptyEnv == [k \in {} |-> <<>>]

(***************************************************************************)
(* The state machine.                                                      *)
(***************************************************************************)
Init ==
  /\ environ = EmptyEnv
  /\ status = "unloaded"
  /\ settings = NoSettings
  /\ loadEnv = EmptyEnv

\* The caller exports a variable before running the builder.
Setenv(key, value) ==
  /\ environ' = [k \in DOMAIN environ \cup {key} |->
                    IF k = key THEN value ELSE environ[k]]
  /\ UNCHANGED <<status, settings, loadEnv>>

\* The caller removes a variable from the environment.
Unsetenv(key) ==
  /\ key \in DOMAIN environ
  /\ environ' = [k \in DOMAIN environ \ {key} |-> environ[k]]
  /\ UNCHANGED <<status, settings, loadEnv>>

\* The builder executes the module body under the current environment.
Load ==
  /\ loadEnv' = environ
  /\ IF LoadRaises(environ)
       THEN /\ status' = "failed"
            /\ settings' = NoSettings
       ELSE /\ status' = "loaded"
            /\ settings' = Module(environ)
  /\ UNCHANGED environ

Next ==
  \/ \E key \in Keys : \E value \in ValuesOf(key) : Setenv(key, value)
  \/ \E key \in Keys : Unsetenv(key)
  \/ Load

Spec == Init /\ [][Next]_vars

(***************************************************************************)
(* Vocabulary of the properties.                                           *)
(***************************************************************************)
Loaded == status = "loaded"

HasRun == status # "unloaded"

IsSet(env, key) == key \in DOMAIN env

\* The variable has the same value, or is unset, in both environments.
SameVar(e1, e2, key) ==
  /\ IsSet(e1, key) <=> IsSet(e2, key)
  /\ IsSet(e1, key) => e1[key] = e2[key]

DmgResourcesIconPath ==
  <<"d","m","g","-","r","e","s","o","u","r","c","e","s","/",
    "A","p","p","I","c","o","n",".","i","c","n","s">>

DmgResourcesBackgroundPath ==
  <<"d","m","g","-","r","e","s","o","u","r","c","e","s","/",
    "b","a","c","k","g","r","o","u","n","d",".","p","n","g">>

\* The path without its trailing slashes.
RStripSlash(p) ==
  LET keep == {n \in 0..Len(p) : \A i \in (n+1)..Len(p) : p[i] = "/"}
      n == CHOOSE m \in keep : \A o \in keep : m <= o
  IN SubSeq(p, 1, n)

\* The final path component: what follows the last slash.
Basename(p) ==
  LET slashes == {i \in 1..Len(p) : p[i] = "/"}
      last == IF slashes = {} THEN 0
              ELSE CHOOSE i \in slashes : \A j \in slashes : j <= i
  IN SubSeq(p, last + 1, Len(p))

\* The name under which the builder places a file in the image.
ItemName(p) == Basename(RStripSlash(p))

Range(s) == {s[i] : i \in DOMAIN s}

\* The names of the items placed in the image by the loaded settings.
PlacedItems ==
  {ItemName(f) : f \in Range(settings.files)} \cup DOMAIN settings.symlinks

(***************************************************************************)
(* C1. With neither APP_PATH nor DMG_RESOURCES in the environment, the     *)
(* load succeeds with the defaults: app_path and files name                *)
(* build/Release/GitBar.app, dmg_resources is dmg-resources, icon is       *)
(* dmg-resources/AppIcon.icns, background is dmg-resources/background.png. *)
(***************************************************************************)
C1_DefaultsApplied ==
  (HasRun /\ DOMAIN loadEnv = {}) =>
     /\ Loaded
     /\ settings.app_path = DefaultAppPath
     /\ settings.files = <<DefaultAppPath>>
     /\ settings.dmg_resources = DefaultDmgResources
     /\ settings.icon = DmgResourcesIconPath
     /\ settings.background = DmgResourcesBackgroundPath

\* A load under the empty environment, run after an earlier load under
\* another environment or as the first one.
C1_Witness ==
  /\ Loaded
  /\ DOMAIN loadEnv = {}
  /\ DOMAIN environ = {}
  /\ settings.files = <<DefaultAppPath>>

(***************************************************************************)
(* C2. Each variable falls back to its default exactly when it is unset,   *)
(* independently of the other; a set variable, the empty string included,  *)
(* is used as given.                                                       *)
(***************************************************************************)
C2_FallbackExactlyWhenUnset ==
  HasRun =>
     /\ Loaded
     /\ settings.app_path =
          (IF IsSet(loadEnv, APP_PATH) THEN loadEnv[APP_PATH]
                                       ELSE DefaultAppPath)
     /\ settings.files = <<settings.app_path>>
     /\ settings.dmg_resources =
          (IF IsSet(loadEnv, DMG_RESOURCES) THEN loadEnv[DMG_RESOURCES]
                                            ELSE DefaultDmgResources)
     /\ settings.icon = join(settings.dmg_resources, AppIconIcns)
     /\ settings.background = join(settings.dmg_resources, BackgroundPng)

\* APP_PATH set to the empty string while DMG_RESOURCES is unset.
C2_Witness ==
  /\ Loaded
  /\ IsSet(loadEnv, APP_PATH)
  /\ loadEnv[APP_PATH] = <<>>
  /\ ~IsSet(loadEnv, DMG_RESOURCES)
  /\ settings.files = << <<>> >>
  /\ settings.icon = DmgResourcesIconPath

(***************************************************************************)
(* C3. For every environment the image holds exactly one application       *)
(* bundle and one symlink: files has one element, the application-bundle   *)
(* path, and symlinks has the single entry Applications -> /Applications.  *)
(***************************************************************************)
C3_OneBundleOneSymlink ==
  HasRun =>
     /\ Loaded
     /\ Len(settings.files) = 1
     /\ settings.files[1] = settings.app_path
     /\ DOMAIN settings.symlinks = {Applications}
     /\ Cardinality(DOMAIN settings.symlinks) = 1
     /\ settings.symlinks[Applications] = SlashApplications

C3_Witness ==
  /\ Loaded
  /\ IsSet(loadEnv, APP_PATH)
  /\ IsSet(loadEnv, DMG_RESOURCES)
  /\ loadEnv[APP_PATH] = OtherApp
  /\ settings.files = <<OtherApp>>

C5_LayoutRefersToPlacedItems ==
  Loaded =>
     /\ DOMAIN settings.icon_locations \subseteq PlacedItems
     /\ Range(settings.hide_extension) \subseteq PlacedItems
     /\ PlacedItems \subseteq DOMAIN settings.icon_locations

(***************************************************************************)
(* C6. The icon layout is centered in and contained by the 660x400         *)
(* window: the window size is (660, 400), every icon coordinate lies in    *)
(* the window, both icons are at y = 200, the midpoint of their x          *)
(* coordinates is 330, and the two squares of side icon_size centered on   *)
(* the coordinates neither overlap nor leave the window.                   *)
(***************************************************************************)
C6_IconsCenteredInWindow ==
  Loaded =>
    LET w == settings.window_rect[2][1]
        h == settings.window_rect[2][2]
        loc == settings.icon_locations
        s == settings.icon_size
        a == loc[GitBarApp]
        b == loc[Applications]
    IN /\ settings.window_rect[2] = <<660, 400>>
       /\ s = 100
       /\ DOMAIN loc = {GitBarApp, Applications}
       /\ \A k \in DOMAIN loc :
            /\ 0 <= loc[k][1] /\ loc[k][1] <= w
            /\ 0 <= loc[k][2] /\ loc[k][2] <= h
            /\ 0 <= 2 * loc[k][1] - s /\ 2 * loc[k][1] + s <= 2 * w
            /\ 0 <= 2 * loc[k][2] - s /\ 2 * loc[k][2] + s <= 2 * h
       /\ a[2] = 200 /\ b[2] = 200
       /\ 2 * a[2] = h
       /\ a[1] + b[1] = 2 * 330
       /\ a[1] + b[1] = w
       /\ (a[1] + s <= b[1] \/ b[1] + s <= a[1])

C6_Witness ==
  /\ Loaded
  /\ settings.icon_size = 100
  /\ settings.icon_locations[GitBarApp] = <<180, 200>>
  /\ settings.icon_locations[Applications] = <<480, 200>>

(***************************************************************************)
(* C7. Changing APP_PATH or DMG_RESOURCES leaves every other setting       *)
(* unchanged: volume_name, format, size, symlinks, window_rect, icon_size, *)
(* icon_locations, hide_extension and text_size are the same after every   *)
(* load; APP_PATH affects only files and DMG_RESOURCES only icon and       *)
(* background.                                                             *)
(***************************************************************************)
C7_FrameOfEnvironment ==
  /\ [](Loaded => /\ settings.volume_name = <<"G","i","t","B","a","r">>
                  /\ settings.format = <<"U","D","B","Z">>
                  /\ settings.size = None)
  /\ [][(Loaded /\ Loaded') =>
          /\ settings'.volume_name = settings.volume_name
          /\ settings'.format = settings.format
          /\ settings'.size = settings.size
          /\ settings'.symlinks = settings.symlinks
          /\ settings'.window_rect = settings.window_rect
          /\ settings'.icon_size = settings.icon_size
          /\ settings'.icon_locations = settings.icon_locations
          /\ settings'.hide_extension = settings.hide_extension
          /\ settings'.text_size = settings.text_size
          /\ SameVar(loadEnv, loadEnv', APP_PATH) =>
               settings'.files = settings.files
          /\ SameVar(loadEnv, loadEnv', DMG_RESOURCES) =>
               /\ settings'.icon = settings.icon
               /\ settings'.background = settings.background]_vars

C7_Witness ==
  /\ Loaded
  /\ IsSet(loadEnv, APP_PATH)
  /\ IsSet(loadEnv, DMG_RESOURCES)
  /\ loadEnv[APP_PATH] = AbsGitBarApp
  /\ loadEnv[DMG_RESOURCES] = ResDir
  /\ settings.text_size = 12

(***************************************************************************)
(* C8. The volume icon and the background image are resolved inside the    *)
(* same resources directory: icon is the directory joined with             *)
(* AppIcon.icns, background the same directory joined with background.png, *)
(* so both share the directory prefix and differ only in the file name.    *)
(***************************************************************************)
C8_IconAndBackgroundShareDirectory ==
  HasRun =>
    /\ Loaded
    /\ LET d == IF IsSet(loadEnv, DMG_RESOURCES) THEN loadEnv[DMG_RESOURCES]
                                                  ELSE DefaultDmgResources
       IN /\ settings.icon = join(d, AppIconIcns)
          /\ settings.background = join(d, BackgroundPng)
          /\ \E prefix \in {d, d \o <<"/">>} :
               /\ settings.icon = prefix \o AppIconIcns
               /\ settings.background = prefix \o BackgroundPng

C8_Witness ==
  /\ Loaded
  /\ IsSet(loadEnv, DMG_RESOURCES)
  /\ loadEnv[DMG_RESOURCES] = <<"a", "/">>
  /\ settings.icon = <<"a", "/">> \o AppIconIcns
  /\ settings.background = <<"a", "/">> \o BackgroundPng

====
